---- MODULE Spec2Model ----
(***************************************************************************)
(* A model of package coord (github.com/soniakeys/coord): 3D cartesian     *)
(* vectors, spherical and equatorial coordinates, 3x3 matrices and the     *)
(* slice ("batch") forms of the conversions.                               *)
(*                                                                         *)
(* float64 values are modelled by integers; angles are counted in units of *)
(* pi/4, so that atan2, asin, sin and cos are exact on the inputs used.    *)
(* Objects reached through pointers to Cart and M3 live in heaps indexed by *)
(* object names, so that a destination can be the same object as an input. *)
(* Slices are headers [arr, len, cap] into a heap of backing arrays.       *)
(***************************************************************************)
EXTENDS Integers, Sequences, FiniteSets, TLC

VARIABLES
    carts,      \* heap of Cart objects: CartIds -> [X, Y, Z]
    mats,       \* heap of M3 objects: M3Ids -> [0..8 -> value]
    sphr,       \* one Sphr object [Lon, Lat]
    equa,       \* one Equa object [RA, Dec]
    cartArrs,   \* heap of backing arrays of CartS slices
    sphrArrs,   \* heap of backing arrays of SphrS slices
    cs,         \* the CartS receiver variable: a slice header
    ss,         \* the SphrS receiver variable: a slice header
    last        \* record of the most recent call (arguments, state before)

vars == <<carts, mats, sphr, equa, cartArrs, sphrArrs, cs, ss, last>>

(***************************************************************************)
(* Bounds of the model.                                                    *)
(***************************************************************************)
MaxVal == 1      \* vector components and scalars range over -MaxVal..MaxVal
MaxEntry == 1    \* matrix entries of the transpose inputs range over 0..MaxEntry
MaxLen == 2      \* slice lengths and capacities range over 0..MaxLen

Vals == -MaxVal..MaxVal

(***************************************************************************)
(* Cart and its methods.  Each method is a function of the heap h: it      *)
(* returns the heap after the call, performing the field writes in the     *)
(* order of the source, each right-hand side read from the heap as it is   *)
(* when the statement runs.                                                *)
(***************************************************************************)
CartIds == {"p", "q"}

Cart(x, y, z) == [X |-> x, Y |-> y, Z |-> z]

CartVals == {Cart(x, y, z) : x \in Vals, y \in Vals, z \in Vals}

Neg(h, z, a) ==
    LET h1 == [h EXCEPT ![z].X = -h[a].X]
        h2 == [h1 EXCEPT ![z].Y = -h1[a].Y]
    IN  [h2 EXCEPT ![z].Z = -h2[a].Z]

Add(h, z, a1, a2) ==
    LET h1 == [h EXCEPT ![z].X = h[a1].X + h[a2].X]
        h2 == [h1 EXCEPT ![z].Y = h1[a1].Y + h1[a2].Y]
    IN  [h2 EXCEPT ![z].Z = h2[a1].Z + h2[a2].Z]

Sub(h, z, a1, a2) ==
    LET h1 == [h EXCEPT ![z].X = h[a1].X - h[a2].X]
        h2 == [h1 EXCEPT ![z].Y = h1[a1].Y - h1[a2].Y]
    IN  [h2 EXCEPT ![z].Z = h2[a1].Z - h2[a2].Z]

MulScalar(h, z, a, b) ==
    LET h1 == [h EXCEPT ![z].X = h[a].X * b]
        h2 == [h1 EXCEPT ![z].Y = h1[a].Y * b]
    IN  [h2 EXCEPT ![z].Z = h2[a].Z * b]

\* A sign slip in the Z component.
RotateXSignSlip(h, z, a, sin, cos) ==
    [h EXCEPT ![z] = Cart(h[a].X,
                          h[a].Z * sin + h[a].Y * cos,
                          h[a].Z * cos + h[a].Y * sin)]

\* One tuple assignment: the three right-hand sides are evaluated first.
RotateX(h, z, a, sin, cos) ==
    [h EXCEPT ![z] = Cart(h[a].X,
                          h[a].Z * sin + h[a].Y * cos,
                          h[a].Z * cos - h[a].Y * sin)]

Dot(h, a1, a2) ==
    h[a1].X * h[a2].X + h[a1].Y * h[a2].Y + h[a1].Z * h[a2].Z

\* The cross product written as three statements instead of one tuple
\* assignment: Y and Z read components of z already written.
CrossSeq(h, z, a, b) ==
    LET h1 == [h EXCEPT ![z].X = h[a].Y * h[b].Z - h[a].Z * h[b].Y]
        h2 == [h1 EXCEPT ![z].Y = h1[a].Z * h1[b].X - h1[a].X * h1[b].Z]
    IN  [h2 EXCEPT ![z].Z = h2[a].X * h2[b].Y - h2[a].Y * h2[b].X]

\* The Y component with its two products exchanged.
CrossSignSlip(h, z, a, b) ==
    [h EXCEPT ![z] = Cart(h[a].Y * h[b].Z - h[a].Z * h[b].Y,
                          h[a].X * h[b].Z - h[a].Z * h[b].X,
                          h[a].X * h[b].Y - h[a].Y * h[b].X)]

\* One tuple assignment.
Cross(h, z, a, b) ==
    [h EXCEPT ![z] = Cart(h[a].Y * h[b].Z - h[a].Z * h[b].Y,
                          h[a].Z * h[b].X - h[a].X * h[b].Z,
                          h[a].X * h[b].Y - h[a].Y * h[b].X)]

(***************************************************************************)
(* M3: nine values, row-major, indices 0..8.                               *)
(***************************************************************************)
M3Of(t) == [i \in 0..8 |-> t[i + 1]]

\* z is assigned a composite literal: the literal is evaluated, then stored.
Mult3(h, z, rm, a) ==
    [h EXCEPT ![z] = Cart(rm[0] * h[a].X + rm[1] * h[a].Y + rm[2] * h[a].Z,
                          rm[3] * h[a].X + rm[4] * h[a].Y + rm[5] * h[a].Z,
                          rm[6] * h[a].X + rm[7] * h[a].Y + rm[8] * h[a].Z)]

(***************************************************************************)
(* Values of the variables a specification does not use.                   *)
(***************************************************************************)
M3Ids == {"m", "n"}

ZeroCart == Cart(0, 0, 0)
ZeroM3 == [i \in 0..8 |-> 0]
ZeroSphr == [Lon |-> 0, Lat |-> 0]
ZeroEqua == [RA |-> 0, Dec |-> 0]
NilSlice == [arr |-> 0, len |-> 0, cap |-> 0]

IdleCarts == carts = [id \in CartIds |-> ZeroCart]
IdleMats == mats = [id \in M3Ids |-> ZeroM3]
IdleAngles == sphr = ZeroSphr /\ equa = ZeroEqua
IdleSlices == cartArrs = <<>> /\ sphrArrs = <<>> /\ cs = NilSlice /\ ss = NilSlice

(***************************************************************************)
(* The vector specification: two Cart objects with arbitrary components,   *)
(* and every Cart-producing method called with every choice of destination *)
(* and inputs among them.                                                  *)
(***************************************************************************)
\* The rotation matrices and the test matrix the calls of Mult3 are given.
M3Samples ==
    { M3Of(<<1, 0, 0,  0, 1, 0,  0, 0, 1>>),
      M3Of(<<0, 1, 0,  1, 0, 0,  0, 0, 1>>),
      M3Of(<<0, 0, 1,  0, 1, 0,  1, 0, 0>>),
      M3Of(<<1, 0, 0,  0, 0, 1,  0, 1, 0>>),
      M3Of(<<0, 1, 0,  0, 0, 1,  1, 0, 0>>),
      M3Of(<<0, 0, 1,  1, 0, 0,  0, 1, 0>>),
      M3Of(<<1, 0, 0,  0, 0, -1,  0, 1, 0>>),
      M3Of(<<1, 2, 3,  4, 5, 6,  7, 8, 9>>) }

\* (sin, cos) arguments of RotateX: the four right angles and others.
SinCos == {<<s, c>> : s \in -1..1, c \in -1..1}

\* Each behaviour makes one call on arbitrary objects; a rotation may then
\* be undone.
NoCallYet == last.op = "none"

CartCall(op, z, a, b) ==
    [op |-> op, z |-> z, a |-> a, b |-> b, k |-> 0, sin |-> 0, cos |-> 0,
     rm |-> ZeroM3, pre |-> carts, inv |-> FALSE, orig |-> ZeroCart]

IdleRest == IdleMats /\ IdleAngles /\ IdleSlices
RestUnchanged == UNCHANGED <<mats, sphr, equa, cartArrs, sphrArrs, cs, ss>>

InitCart ==
    /\ carts \in [CartIds -> CartVals]
    /\ last = CartCall("none", "p", "p", "p")
    /\ IdleRest

NegAct ==
    \E z \in CartIds, a \in CartIds :
        /\ NoCallYet
        /\ carts' = Neg(carts, z, a)
        /\ last' = CartCall("Neg", z, a, a)
        /\ RestUnchanged

AddAct ==
    \E z \in CartIds, a1 \in CartIds, a2 \in CartIds :
        /\ NoCallYet
        /\ carts' = Add(carts, z, a1, a2)
        /\ last' = CartCall("Add", z, a1, a2)
        /\ RestUnchanged

SubAct ==
    \E z \in CartIds, a1 \in CartIds, a2 \in CartIds :
        /\ NoCallYet
        /\ carts' = Sub(carts, z, a1, a2)
        /\ last' = CartCall("Sub", z, a1, a2)
        /\ RestUnchanged

MulScalarAct ==
    \E z \in CartIds, a \in CartIds, b \in Vals :
        /\ NoCallYet
        /\ carts' = MulScalar(carts, z, a, b)
        /\ last' = [CartCall("MulScalar", z, a, a) EXCEPT !.k = b]
        /\ RestUnchanged

RotateXAct ==
    \E z \in CartIds, a \in CartIds, sc \in SinCos :
        /\ NoCallYet
        /\ carts' = RotateX(carts, z, a, sc[1], sc[2])
        /\ last' = [CartCall("RotateX", z, a, a) EXCEPT !.sin = sc[1], !.cos = sc[2]]
        /\ RestUnchanged

\* The inverse rotation: the vector the previous RotateX produced is rotated
\* by the negated sine and the same cosine.  inv records that this call
\* undoes the previous one, orig the vector the previous call was given.
RotateXUndoAct ==
    \E z \in CartIds :
        /\ last.op = "RotateX"
        /\ ~last.inv
        /\ carts' = RotateX(carts, z, last.z, -last.sin, last.cos)
        /\ last' = [CartCall("RotateX", z, last.z, last.z) EXCEPT
                       !.sin = -last.sin, !.cos = last.cos, !.inv = TRUE,
                       !.orig = last.pre[last.a]]
        /\ RestUnchanged

CrossAct ==
    \E z \in CartIds, a \in CartIds, b \in CartIds :
        /\ NoCallYet
        /\ carts' = Cross(carts, z, a, b)
        /\ last' = CartCall("Cross", z, a, b)
        /\ RestUnchanged

Mult3Act ==
    \E z \in CartIds, a \in CartIds, rm \in M3Samples :
        /\ NoCallYet
        /\ carts' = Mult3(carts, z, rm, a)
        /\ last' = [CartCall("Mult3", z, a, a) EXCEPT !.rm = rm]
        /\ RestUnchanged

NextCart ==
    \/ NegAct
    \/ AddAct
    \/ SubAct
    \/ MulScalarAct
    \/ RotateXAct
    \/ RotateXUndoAct
    \/ CrossAct
    \/ Mult3Act

SpecCart == InitCart /\ [][NextCart]_vars

(***************************************************************************)
(* The call recorded in c, made on heap h with destination z.              *)
(***************************************************************************)
Replay(h, c, z) ==
    CASE c.op = "Neg" -> Neg(h, z, c.a)
      [] c.op = "Add" -> Add(h, z, c.a, c.b)
      [] c.op = "Sub" -> Sub(h, z, c.a, c.b)
      [] c.op = "MulScalar" -> MulScalar(h, z, c.a, c.k)
      [] c.op = "RotateX" -> RotateX(h, z, c.a, c.sin, c.cos)
      [] c.op = "Cross" -> Cross(h, z, c.a, c.b)
      [] c.op = "Mult3" -> Mult3(h, z, c.rm, c.a)
      [] OTHER -> h

\* The heap h with one more object, distinct from all of h's.
WithFresh(h) ==
    [id \in (DOMAIN h) \cup {"fresh"} |-> IF id = "fresh" THEN ZeroCart ELSE h[id]]

\* C5: after a call of Neg, Add, Sub, MulScalar, RotateX, Cross or Mult3,
\* whatever inputs the destination z is the same object as, z holds the
\* value the same call produces in a fresh destination distinct from all
\* inputs.
C5_AliasingTolerated ==
    last.op # "none" =>
        carts[last.z] = Replay(WithFresh(last.pre), last, "fresh")["fresh"]

\* C5 witness: a cross product written into its own first input, where
\* writing the components one statement at a time would give another value.
C5_Witness ==
    /\ last.op = "Cross"
    /\ last.z = last.a
    /\ last.b # last.a
    /\ carts[last.z] # last.pre[last.z]
    /\ CrossSeq(last.pre, last.z, last.a, last.b)[last.z] # carts[last.z]

\* C9: RotateX leaves X, sets Y' = Z*sin + Y*cos and Z' = Z*cos - Y*sin;
\* rotating the result by (-sin, cos) gives (sin^2 + cos^2) * (Y, Z) in the
\* Y and Z components, which is the original vector when sin^2 + cos^2 = 1.
C9_RotateXRoundTrip ==
    last.op = "RotateX" =>
        LET v == last.pre[last.a]
            r == carts[last.z]
            n == last.sin * last.sin + last.cos * last.cos
        IN  /\ r.X = v.X
            /\ r.Y = v.Z * last.sin + v.Y * last.cos
            /\ r.Z = v.Z * last.cos - v.Y * last.sin
            /\ last.inv =>
                  /\ r = Cart(last.orig.X, n * last.orig.Y, n * last.orig.Z)
                  /\ n = 1 => r = last.orig

\* C9 witness: a quarter turn that moved the vector has been undone.
C9_Witness ==
    /\ last.op = "RotateX"
    /\ last.inv
    /\ last.sin # 0
    /\ last.sin * last.sin + last.cos * last.cos = 1
    /\ last.pre[last.a] # last.orig
    /\ carts[last.z] = last.orig

\* C10: Cross(a, b) = Neg(Cross(b, a)); Cross(a, a) = (0, 0, 0); and the
\* result is orthogonal to both inputs: Dot(a, Cross(a, b)) = 0 and
\* Dot(b, Cross(a, b)) = 0.
C10_CrossIdentities ==
    last.op = "Cross" =>
        LET h0 == [a |-> last.pre[last.a], b |-> last.pre[last.b],
                   r |-> carts[last.z], t |-> ZeroCart]
            ba == Neg(Cross(h0, "t", "b", "a"), "t", "t")
        IN  /\ h0.r = ba.t
            /\ h0.a = h0.b => h0.r = ZeroCart
            /\ Dot(h0, "a", "r") = 0
            /\ Dot(h0, "b", "r") = 0

\* C10 witness: a non-zero cross product of two distinct objects.
C10_Witness ==
    /\ last.op = "Cross"
    /\ last.a # last.b
    /\ carts[last.z] # ZeroCart

(***************************************************************************)
(* M3.Transpose: three tuple assignments, one after the other; within each *)
(* the right-hand sides are evaluated before any element is written.       *)
(***************************************************************************)
\* The index of the transposed position: 3i+j becomes 3j+i.
Flip(k) == 3 * (k % 3) + (k \div 3)

\* A transpose that copies element by element, z[k] = a[Flip(k)] for
\* k = 0..8 in turn, which is right only when z and a are distinct.
RECURSIVE TransposeFrom(_, _, _, _)
TransposeFrom(h, z, a, k) ==
    IF k > 8 THEN h
    ELSE TransposeFrom([h EXCEPT ![z][k] = h[a][Flip(k)]], z, a, k + 1)

TransposeNaive(h, z, a) == TransposeFrom(h, z, a, 0)

Transpose(h, z, a) ==
    LET h1 == [h EXCEPT ![z] =
                  [h[z] EXCEPT ![0] = h[a][0], ![1] = h[a][3], ![3] = h[a][1]]]
        h2 == [h1 EXCEPT ![z] =
                  [h1[z] EXCEPT ![2] = h1[a][6], ![4] = h1[a][4], ![6] = h1[a][2]]]
    IN  [h2 EXCEPT ![z] =
            [h2[z] EXCEPT ![5] = h2[a][7], ![7] = h2[a][5], ![8] = h2[a][8]]]

(***************************************************************************)
(* The matrix specification: matrix m is arbitrary, n is new(M3), and      *)
(* Transpose is called with every choice of destination and input.         *)
(***************************************************************************)
M3Vals == [0..8 -> 0..MaxEntry]

InitM3 ==
    /\ \E m0 \in M3Vals : mats = [id \in M3Ids |-> IF id = "m" THEN m0 ELSE ZeroM3]
    /\ last = [op |-> "none", z |-> "m", a |-> "m", pre |-> mats]
    /\ IdleCarts /\ IdleAngles /\ IdleSlices

TransposeAct ==
    \E z \in M3Ids, a \in M3Ids :
        /\ mats' = Transpose(mats, z, a)
        /\ last' = [op |-> "Transpose", z |-> z, a |-> a, pre |-> mats]
        /\ UNCHANGED <<carts, sphr, equa, cartArrs, sphrArrs, cs, ss>>

NextM3 == TransposeAct

SpecM3 == InitM3 /\ [][NextM3]_vars

\* C6: Transpose sets z[3i+j] = a[3j+i] for all i, j in 0..2, whether z is
\* a separate matrix or the same matrix as a; in place it gives the nine
\* values the transpose into a fresh matrix gives, and the diagonal
\* (indices 0, 4, 8) keeps its values.
C6_TransposeInPlace ==
    last.op = "Transpose" =>
        /\ \A i \in 0..2, j \in 0..2 :
              mats[last.z][3 * i + j] = last.pre[last.a][3 * j + i]
        /\ last.z = last.a =>
              /\ LET h == [m \in {"src", "fresh"} |->
                              IF m = "src" THEN last.pre[last.a] ELSE ZeroM3]
                 IN  mats[last.z] = Transpose(h, "fresh", "src")["fresh"]
              /\ \A d \in {0, 4, 8} : mats[last.z][d] = last.pre[last.z][d]

\* C6 witness: an in-place transpose of a matrix that is not symmetric.
C6_Witness ==
    /\ last.op = "Transpose"
    /\ last.z = last.a
    /\ mats[last.z] # last.pre[last.z]

(***************************************************************************)
(* Angles and the conversions between Cart, Sphr and Equa.  An angle is a  *)
(* whole number of eighths of a turn (pi/4).  Atan2 and Asin are the exact *)
(* values of math.Atan2 and math.Asin on the vectors of GridCarts; Sin and *)
(* Cos are exact on the multiples of pi/2.                                 *)
(***************************************************************************)
TwoPi == 8

Abs(x) == IF x < 0 THEN -x ELSE x

\* math.Atan2(y, x), in (-pi, pi], for x = 0, y = 0 or |x| = |y|.
Atan2(y, x) ==
    CASE y = 0 /\ x >= 0 -> 0
      [] y = 0 /\ x < 0 -> 4
      [] x = 0 /\ y > 0 -> 2
      [] x = 0 /\ y < 0 -> -2
      [] x > 0 /\ y = x -> 1
      [] x > 0 /\ y = -x -> -1
      [] x < 0 /\ y = -x -> 3
      [] x < 0 /\ y = x -> -3

\* math.Asin(z) for z in {-1, 0, 1}.
Asin(z) == 2 * z

\* Angle.Sincos, for an angle that is a multiple of pi/2.
Sin(a) == CASE a % TwoPi = 0 -> 0 [] a % TwoPi = 2 -> 1
            [] a % TwoPi = 4 -> 0 [] a % TwoPi = 6 -> -1

Cos(a) == CASE a % TwoPi = 0 -> 1 [] a % TwoPi = 2 -> 0
            [] a % TwoPi = 4 -> -1 [] a % TwoPi = 6 -> 0

\* unit.RAFromRad: a right ascension is kept in [0, 2 pi).
RAFromRad(rad) == rad % TwoPi

\* unit.RA.Angle: the same radians, as an Angle.
RAAngle(ra) == ra

\* The vectors whose longitude and latitude are whole angles.
GridCarts ==
    {c \in CartVals : /\ c.X = 0 \/ c.Y = 0 \/ Abs(c.X) = Abs(c.Y)
                      /\ Abs(c.Z) <= 1}

RightAngle(a) == a % 2 = 0

FromSphr(h, c, s) ==
    LET sLon == Sin(s.Lon)
        cLon == Cos(s.Lon)
        sLat == Sin(s.Lat)
        cLat == Cos(s.Lat)
    IN  [h EXCEPT ![c] = Cart(cLat * cLon, cLat * sLon, sLat)]

\* The three conversions below write the two fields of their receiver s
\* and return it.
FromEqua(s, e) ==
    LET s1 == [s EXCEPT !.Lon = RAAngle(e.RA)]
    IN  [s1 EXCEPT !.Lat = e.Dec]

EquaFromCart(s, c) ==
    LET s1 == [s EXCEPT !.RA = RAFromRad(Atan2(c.Y, c.X))]
    IN  [s1 EXCEPT !.Dec = Asin(c.Z)]

SphrFromCart(s, c) ==
    LET s1 == [s EXCEPT !.Lon = Atan2(c.Y, c.X)]
    IN  [s1 EXCEPT !.Lat = Asin(c.Z)]

(***************************************************************************)
(* The conversion specification: Cart p is any grid vector, and the four   *)
(* single-element conversions are called on p, q, sphr and equa.           *)
(***************************************************************************)
InitConv ==
    /\ \E c0 \in GridCarts : carts = [id \in CartIds |-> IF id = "p" THEN c0 ELSE ZeroCart]
    /\ sphr = ZeroSphr
    /\ equa = ZeroEqua
    /\ last = [op |-> "none", c |-> "p"]
    /\ IdleMats /\ IdleSlices

ConvRest == UNCHANGED <<mats, cartArrs, sphrArrs, cs, ss>>

SphrFromCartAct ==
    \E c \in CartIds :
        /\ sphr' = SphrFromCart(sphr, carts[c])
        /\ last' = [op |-> "Sphr.FromCart", c |-> c]
        /\ UNCHANGED <<carts, equa>>
        /\ ConvRest

EquaFromCartAct ==
    \E c \in CartIds :
        /\ equa' = EquaFromCart(equa, carts[c])
        /\ last' = [op |-> "Equa.FromCart", c |-> c]
        /\ UNCHANGED <<carts, sphr>>
        /\ ConvRest

SphrFromEquaAct ==
    /\ sphr' = FromEqua(sphr, equa)
    /\ last' = [op |-> "Sphr.FromEqua", c |-> "p"]
    /\ UNCHANGED <<carts, equa>>
    /\ ConvRest

CartFromSphrAct ==
    \E c \in CartIds :
        /\ RightAngle(sphr.Lon) /\ RightAngle(sphr.Lat)
        /\ carts' = FromSphr(carts, c, sphr)
        /\ last' = [op |-> "Cart.FromSphr", c |-> c]
        /\ UNCHANGED <<sphr, equa>>
        /\ ConvRest

NextConv ==
    \/ SphrFromCartAct
    \/ EquaFromCartAct
    \/ SphrFromEquaAct
    \/ CartFromSphrAct

SpecConv == InitConv /\ [][NextConv]_vars

\* C3: Sphr.FromCart(c) sets Lon to atan2(c.Y, c.X) normalized into
\* [0, 2 pi), so that 0 <= Lon < 2 pi also when c.Y < 0, and Lat to
\* asin(c.Z).
C3_SphrLonNormalized ==
    last.op = "Sphr.FromCart" =>
        /\ sphr.Lon = (Atan2(carts[last.c].Y, carts[last.c].X) + TwoPi) % TwoPi
        /\ 0 <= sphr.Lon /\ sphr.Lon < TwoPi
        /\ sphr.Lat = Asin(carts[last.c].Z)

(***************************************************************************)
(* Slices.  A slice is a header [arr, len, cap]: arr is the index of its   *)
(* backing array in the heap (0 for a nil slice), and its elements are     *)
(* arr's elements 0..len-1.  A backing array is a function on 0..cap-1.    *)
(* Array 1 of each heap is the caller's input of the call.                 *)
(***************************************************************************)
InputArr == 1

\* make(T, n): a new array of n zero values, after the arrays of h.
Make(h, zero, n) == Append(h, [i \in 0..(n - 1) |-> zero])

\* The header make returns.
Made(h, n) == [arr |-> Len(h) + 1, len |-> n, cap |-> n]

\* s[:n], for n <= cap(s).
SliceTo(s, n) == [s EXCEPT !.len = n]

\* The result of a batch call: the heap after it, the value stored in the
\* receiver, the value returned, and whether the call ended in a run-time
\* panic (index out of range) instead of returning.
Returned(h, recv, ret) == [heap |-> h, recv |-> recv, ret |-> ret, fault |-> FALSE]
Panicked(h, recv) == [heap |-> h, recv |-> recv, ret |-> NilSlice, fault |-> TRUE]

(***************************************************************************)
(* CartS.FromEquaS.  e is the input by value: [elems, len].                *)
(***************************************************************************)
\* c[i].FromSphr(s), s being the local Sphr after s.FromEqua(&e[i]).
FromEquaSStep(h, c, s, i) ==
    [h EXCEPT ![c.arr][i] = FromSphr([ci |-> h[c.arr][i]], "ci", s).ci]

\* The loop from index i on; s is the local Sphr all iterations write.
RECURSIVE FromEquaSLoop(_, _, _, _, _)
FromEquaSLoop(h, c, e, s, i) ==
    IF i >= e.len THEN [heap |-> h, fault |-> FALSE]
    ELSE IF i >= c.len THEN [heap |-> h, fault |-> TRUE]
    ELSE LET s1 == FromEqua(s, e.elems[i])
         IN  FromEquaSLoop(FromEquaSStep(h, c, s1, i), c, e, s1, i + 1)

FromEquaS(h, cp, e) ==
    LET grow == cp.cap < e.len
        h1 == IF grow THEN Make(h, ZeroCart, e.len) ELSE h
        c == IF grow THEN Made(h, e.len) ELSE SliceTo(cp, e.len)
        r == FromEquaSLoop(h1, c, e, ZeroSphr, 0)
    IN  IF r.fault THEN Panicked(r.heap, cp) ELSE Returned(r.heap, c, c)

(***************************************************************************)
(* CartS.FromSphrS.  sh is the heap of Sphr arrays, s the input's header.  *)
(***************************************************************************)
FromSphrSStep(h, c, sh, s, i) ==
    LET s1 == sh[s.arr][i]
    IN  [h EXCEPT ![c.arr][i] = FromSphr([ci |-> h[c.arr][i]], "ci", s1).ci]

RECURSIVE FromSphrSLoop(_, _, _, _, _)
FromSphrSLoop(h, c, sh, s, i) ==
    IF i >= s.len THEN [heap |-> h, fault |-> FALSE]
    ELSE IF i >= c.len THEN [heap |-> h, fault |-> TRUE]
    ELSE FromSphrSLoop(FromSphrSStep(h, c, sh, s, i), c, sh, s, i + 1)

\* The receiver resliced to its own length, as Mult3S does.
FromSphrSKeepLen(h, cp, sh, s) ==
    LET grow == cp.cap < s.len
        h1 == IF grow THEN Make(h, ZeroCart, s.len) ELSE h
        c == IF grow THEN Made(h, s.len) ELSE SliceTo(cp, cp.len)
        r == FromSphrSLoop(h1, c, sh, s, 0)
    IN  IF r.fault THEN Panicked(r.heap, cp) ELSE Returned(r.heap, c, c)

\* A new array made on every call.
FromSphrSAlwaysMake(h, cp, sh, s) ==
    LET h1 == Make(h, ZeroCart, s.len)
        c == Made(h, s.len)
        r == FromSphrSLoop(h1, c, sh, s, 0)
    IN  IF r.fault THEN Panicked(r.heap, cp) ELSE Returned(r.heap, c, c)

FromSphrS(h, cp, sh, s) ==
    LET grow == cp.cap < s.len
        h1 == IF grow THEN Make(h, ZeroCart, s.len) ELSE h
        c == IF grow THEN Made(h, s.len) ELSE SliceTo(cp, s.len)
        r == FromSphrSLoop(h1, c, sh, s, 0)
    IN  IF r.fault THEN Panicked(r.heap, cp) ELSE Returned(r.heap, c, c)

(***************************************************************************)
(* SphrS.FromCartS.  sh is the heap of Sphr arrays, sp the receiver, h the *)
(* heap of Cart arrays, c the input's header.                              *)
(***************************************************************************)
FromCartSStep(sh, s, h, c, i) ==
    LET c1 == h[c.arr][i]
    IN  [sh EXCEPT ![s.arr][i] = SphrFromCart(sh[s.arr][i], c1)]

RECURSIVE FromCartSLoop(_, _, _, _, _)
FromCartSLoop(sh, s, h, c, i) ==
    IF i >= c.len THEN [heap |-> sh, fault |-> FALSE]
    ELSE IF i >= s.len THEN [heap |-> sh, fault |-> TRUE]
    ELSE FromCartSLoop(FromCartSStep(sh, s, h, c, i), s, h, c, i + 1)

FromCartS(sh, sp, h, c) ==
    LET grow == sp.cap < c.len
        sh1 == IF grow THEN Make(sh, ZeroSphr, c.len) ELSE sh
        s == IF grow THEN Made(sh, c.len) ELSE SliceTo(sp, c.len)
        r == FromCartSLoop(sh1, s, h, c, 0)
    IN  IF r.fault THEN Panicked(r.heap, sp) ELSE Returned(r.heap, s, s)

(***************************************************************************)
(* CartS.Mult3S.  The input a may be the receiver itself: each a1 is read  *)
(* from the heap when its iteration starts.                                *)
(***************************************************************************)
\* Every element computed from the first element of a.
Mult3SStepFirst(h, z, rm, a, i) ==
    LET a1 == h[a.arr][0]
    IN  [h EXCEPT ![z.arr][i] =
            Mult3([zi |-> h[z.arr][i], a1 |-> a1], "zi", rm, "a1").zi]

Mult3SStep(h, z, rm, a, i) ==
    LET a1 == h[a.arr][i]
    IN  [h EXCEPT ![z.arr][i] =
            Mult3([zi |-> h[z.arr][i], a1 |-> a1], "zi", rm, "a1").zi]

RECURSIVE Mult3SLoop(_, _, _, _, _)
Mult3SLoop(h, z, rm, a, i) ==
    IF i >= a.len THEN [heap |-> h, fault |-> FALSE]
    ELSE IF i >= z.len THEN [heap |-> h, fault |-> TRUE]
    ELSE Mult3SLoop(Mult3SStep(h, z, rm, a, i), z, rm, a, i + 1)

Mult3S(h, zp, rm, a) ==
    LET grow == zp.cap < a.len
        h1 == IF grow THEN Make(h, ZeroCart, a.len) ELSE h
        z == IF grow THEN Made(h, a.len) ELSE SliceTo(zp, zp.len)
        r == Mult3SLoop(h1, z, rm, a, 0)
    IN  IF r.fault THEN Panicked(r.heap, zp) ELSE Returned(r.heap, z, z)

(***************************************************************************)
(* The batch specification.  One receiver, a CartS or a SphrS, starts nil  *)
(* or as make(T, len, cap), and the batch methods are called on it again   *)
(* and again with inputs of every length up to MaxLen.  The other receiver *)
(* stays nil.  When a call starts, each heap holds the input of the call   *)
(* (array 1) and the receiver's backing array (array 2, when not nil):     *)
(* arrays no slice refers to any more have been collected.                 *)
(***************************************************************************)
\* The inputs' elements: the directions at longitude pi/2 and 3 pi/2 on the
\* equator, as vectors and as angles.
BatchCarts == {Cart(0, 1, 0), Cart(0, -1, 0)}
BatchSphrs == {[Lon |-> 2, Lat |-> 0], [Lon |-> 6, Lat |-> 0]}
BatchEquas == {[RA |-> 2, Dec |-> 0], [RA |-> 6, Dec |-> 0]}

\* The quarter turn about the X axis and the turn back.
BatchM3 ==
    { M3Of(<<1, 0, 0,  0, 0, -1,  0, 1, 0>>),
      M3Of(<<1, 0, 0,  0, 0, 1,  0, -1, 0>>) }

EmptyArr == <<>>

\* The arrays of elements of S of every length up to MaxLen.
Inputs(S) == UNION {[0..(n - 1) -> S] : n \in 0..MaxLen}

ArrLen(arr) == Cardinality(DOMAIN arr)

\* The header of the input array.
InputSlice(arr) == [arr |-> InputArr, len |-> ArrLen(arr), cap |-> ArrLen(arr)]

\* The heap a call starts with: the input, then the receiver's array.
StartHeap(input, h, s) == IF s.arr = 0 THEN <<input>> ELSE <<input, h[s.arr]>>

\* The receiver's header in that heap.
StartRecv(s) == IF s.arr = 0 THEN s ELSE [s EXCEPT !.arr = 2]

\* The elements of slice s in heap h.
Elems(h, s) == [i \in 0..(s.len - 1) |-> h[s.arr][i]]

BatchCall(op, rcv, a, in, src, rm, pre, r) ==
    [op |-> op, rcv |-> rcv, a |-> a, in |-> in, src |-> src, rm |-> rm,
     pre |-> pre, ret |-> r.ret, fault |-> r.fault]

InitBatch ==
    /\ \E kind \in {"CartS", "SphrS"}, c \in 0..MaxLen :
         \E l \in 0..c :
            LET hdr == IF c = 0 THEN NilSlice ELSE [arr |-> 2, len |-> l, cap |-> c]
                heap(zero) == IF c = 0 THEN <<EmptyArr>>
                              ELSE <<EmptyArr, [i \in 0..(c - 1) |-> zero]>>
            IN  /\ cs = IF kind = "CartS" THEN hdr ELSE NilSlice
                /\ cartArrs = IF kind = "CartS" THEN heap(ZeroCart) ELSE <<EmptyArr>>
                /\ ss = IF kind = "SphrS" THEN hdr ELSE NilSlice
                /\ sphrArrs = IF kind = "SphrS" THEN heap(ZeroSphr) ELSE <<EmptyArr>>
    /\ last = BatchCall("none", NilSlice, NilSlice, EmptyArr, "fresh", ZeroM3,
                        <<EmptyArr>>, Returned(<<EmptyArr>>, NilSlice, NilSlice))
    /\ IdleCarts /\ IdleMats /\ IdleAngles

BatchRest == UNCHANGED <<carts, mats, sphr, equa>>

FromEquaSAct ==
    \E in \in Inputs(BatchEquas) :
        /\ ss = NilSlice
        /\ LET h0 == StartHeap(EmptyArr, cartArrs, cs)
               c0 == StartRecv(cs)
               e == [elems |-> in, len |-> ArrLen(in)]
           IN  \E r \in {FromEquaS(h0, c0, e)} :
               /\ cartArrs' = r.heap
               /\ cs' = r.recv
               /\ last' = BatchCall("FromEquaS", c0, [NilSlice EXCEPT !.len = e.len],
                                    in, "fresh", ZeroM3, h0, r)
        /\ sphrArrs' = <<EmptyArr>>
        /\ UNCHANGED ss
        /\ BatchRest

FromSphrSAct ==
    \E in \in Inputs(BatchSphrs) :
        /\ ss = NilSlice
        /\ LET h0 == StartHeap(EmptyArr, cartArrs, cs)
               c0 == StartRecv(cs)
               sh == <<in>>
           IN  \E r \in {FromSphrS(h0, c0, sh, InputSlice(in))} :
               /\ cartArrs' = r.heap
               /\ cs' = r.recv
               /\ sphrArrs' = sh
               /\ last' = BatchCall("FromSphrS", c0, InputSlice(in), in, "fresh",
                                    ZeroM3, h0, r)
        /\ UNCHANGED ss
        /\ BatchRest

FromCartSAct ==
    \E in \in Inputs(BatchCarts) :
        /\ cs = NilSlice
        /\ LET sh0 == StartHeap(EmptyArr, sphrArrs, ss)
               s0 == StartRecv(ss)
               h == <<in>>
           IN  \E r \in {FromCartS(sh0, s0, h, InputSlice(in))} :
               /\ sphrArrs' = r.heap
               /\ ss' = r.recv
               /\ cartArrs' = h
               /\ last' = BatchCall("FromCartS", s0, InputSlice(in), in, "fresh",
                                    ZeroM3, sh0, r)
        /\ UNCHANGED cs
        /\ BatchRest

\* z.Mult3S(rm, a) with a slice a that shares no storage with z.
Mult3SAct ==
    \E rm \in BatchM3, in \in Inputs(BatchCarts) :
        /\ ss = NilSlice
        /\ LET h0 == StartHeap(in, cartArrs, cs)
               z0 == StartRecv(cs)
           IN  \E r \in {Mult3S(h0, z0, rm, InputSlice(in))} :
               /\ cartArrs' = r.heap
               /\ cs' = r.recv
               /\ last' = BatchCall("Mult3S", z0, InputSlice(in), in, "fresh", rm, h0, r)
        /\ sphrArrs' = <<EmptyArr>>
        /\ UNCHANGED ss
        /\ BatchRest

\* z.Mult3S(rm, z): the input is the receiver's own slice.
Mult3SSelfAct ==
    \E rm \in BatchM3 :
        /\ ss = NilSlice
        /\ LET h0 == StartHeap(EmptyArr, cartArrs, cs)
               z0 == StartRecv(cs)
           IN  \E r \in {Mult3S(h0, z0, rm, z0)} :
               /\ cartArrs' = r.heap
               /\ cs' = r.recv
               /\ last' = BatchCall("Mult3S", z0, z0, Elems(h0, z0), "self", rm, h0, r)
        /\ sphrArrs' = <<EmptyArr>>
        /\ UNCHANGED ss
        /\ BatchRest

NextBatch ==
    \/ FromEquaSAct
    \/ FromSphrSAct
    \/ FromCartSAct
    \/ Mult3SAct
    \/ Mult3SSelfAct

SpecBatch == InitBatch /\ [][NextBatch]_vars

\* The receiver the last call was made on, and the heap its arrays are in.
Recv == IF last.op = "FromCartS" THEN ss ELSE cs
RecvHeap == IF last.op = "FromCartS" THEN sphrArrs ELSE cartArrs

BatchOps == {"FromEquaS", "FromSphrS", "FromCartS", "Mult3S"}
ConvOps == {"FromEquaS", "FromSphrS", "FromCartS"}

\* C1 (as claimed): after CartS.Mult3S(rm, a) returns, the receiver and the
\* returned slice both have length exactly len(a), whatever the receiver's
\* length and capacity were.
C1_Mult3SLength ==
    (last.op = "Mult3S" /\ ~last.fault) =>
        /\ cs.len = last.a.len
        /\ last.ret.len = last.a.len

\* C2 (as claimed): no batch operation ends in a run-time fault, for any
\* receiver length, receiver capacity and input length.
C2_NoRuntimeFault ==
    last.op \in BatchOps => ~last.fault

\* C4: after FromEquaS, FromSphrS or FromCartS, following any calls before
\* it, the receiver's length is the length of the input, and the slice
\* returned is the value stored in the receiver (same array, same length).
C4_ConvLength ==
    last.op \in ConvOps =>
        /\ ~last.fault
        /\ Recv.len = last.a.len
        /\ last.ret = Recv

\* C4 witness: a conversion into a receiver whose storage is reused and
\* whose length had to change.
C4_Witness ==
    /\ last.op = "FromSphrS"
    /\ last.a.len > 0
    /\ last.rcv.cap >= last.a.len
    /\ last.rcv.len # last.a.len
    /\ cs.len = last.a.len

\* The single-element operation of batch operation op.
Image(op, rm, x) ==
    CASE op = "FromEquaS" -> FromSphr([c |-> ZeroCart], "c", FromEqua(ZeroSphr, x)).c
      [] op = "FromSphrS" -> FromSphr([c |-> ZeroCart], "c", x).c
      [] op = "FromCartS" -> SphrFromCart(ZeroSphr, x)
      [] op = "Mult3S" -> Mult3([c |-> ZeroCart, a |-> x], "c", rm, "a").c

\* The caller's input array after the call (FromEquaS takes it by value).
InputAfter ==
    CASE last.op = "FromSphrS" -> sphrArrs[InputArr]
      [] last.op \in {"FromCartS", "Mult3S"} -> cartArrs[InputArr]
      [] OTHER -> last.in

\* C7: when a batch call returns, output[i] is the single-element operation
\* applied to the original input[i], for every i < len(input), whether the
\* input shares no storage with the receiver or, for Mult3S, is the
\* receiver itself; an input that shares no storage is not modified.
C7_ElementWise ==
    (last.op \in BatchOps /\ ~last.fault) =>
        /\ \A i \in 0..(last.a.len - 1) :
              RecvHeap[last.ret.arr][i] = Image(last.op, last.rm, last.in[i])
        /\ last.src = "fresh" => InputAfter = last.in

\* C7 witness: Mult3S of a slice of two different vectors into itself.
C7_Witness ==
    /\ last.op = "Mult3S"
    /\ last.src = "self"
    /\ ~last.fault
    /\ last.a.len >= 2
    /\ last.in[0] # last.in[1]
    /\ cartArrs[cs.arr][1] # last.in[1]

\* C8: when the receiver's capacity is at least the input's length, no
\* array is allocated, the receiver keeps its array, and the array's
\* elements at indices >= len(input) keep their values; otherwise a new
\* array of exactly len(input) elements becomes the receiver's and the old
\* arrays keep their values.  The receiver's capacity never decreases and
\* its length never exceeds its capacity.
C8_BufferReuse ==
    last.op \in BatchOps =>
        LET rcv == last.rcv
            n == last.a.len
            pre == last.pre
            post == RecvHeap
        IN  /\ rcv.cap >= n =>
                  /\ Len(post) = Len(pre)
                  /\ Recv.arr = rcv.arr
                  /\ ~last.fault => last.ret.arr = rcv.arr
                  /\ \A i \in n..(rcv.cap - 1) : post[rcv.arr][i] = pre[rcv.arr][i]
            /\ rcv.cap < n =>
                  /\ Len(post) = Len(pre) + 1
                  /\ Recv = [arr |-> Len(post), len |-> n, cap |-> n]
                  /\ ArrLen(post[Recv.arr]) = n
                  /\ \A k \in 1..Len(pre) : post[k] = pre[k]
            /\ Recv.cap >= rcv.cap
            /\ Recv.len <= Recv.cap

\* C8 witness: a shorter input converted into a receiver that held more
\* elements: the element after the input's last keeps its non-zero value.
C8_Witness ==
    /\ last.op = "FromSphrS"
    /\ last.a.len >= 1
    /\ last.a.len < last.rcv.len
    /\ last.pre[last.rcv.arr][last.a.len] # ZeroCart
    /\ cartArrs[cs.arr][last.a.len] = last.pre[last.rcv.arr][last.a.len]

====
